---- MODULE Spec2Model ----
(***************************************************************************)
(* Model of the persistent sample cache (SampleDatabase) of                *)
(* bayesian_map_matcher_optimization, src/sample_sources.py, and of the    *)
(* ObjectiveFunction that evaluates and iterates over it,                  *)
(* src/bayropt/objective_function.py and src/objective_function.py.        *)
(*                                                                         *)
(* The durable state is the pickled index file (disk_db) and the payload   *)
(* files of the sample directory (files).  Each SampleDatabase instance    *)
(* holds its own in-memory index (db_dict).  Every method is split at its   *)
(* file operations, so that each state between two file operations is a    *)
(* state of the model and a possible crash point.                          *)
(***************************************************************************)
EXTENDS Integers, Sequences, FiniteSets, TLC

VARIABLES
    disk_db,    \* contents of the index file at _database_path
    files,      \* payload files of sample_dir_path: pickle name -> pickled sample
    db_dict,    \* db_dict[p]: self._db_dict of the instance of process p
    seed,       \* seed[p]: PYTHONHASHSEED of process p
    live,       \* the processes that have a SampleDatabase open
    pc,         \* pc[p]: position of process p inside the running method
    cur,        \* cur[p]: the running call of p (arguments, locals, outcome)
    last,       \* the last completed call or restart
    nops,       \* number of calls started so far
    ncrash,     \* number of restarts so far
    of,         \* the ObjectiveFunction constructed over the database
    paths       \* what is found at database_path and at sample_dir_path

vars ==
    <<disk_db, files, db_dict, seed, live, pc, cur, last, nops, ncrash, of,
      paths>>

(***************************************************************************)
(* Bounds                                                                  *)
(***************************************************************************)
MaxOps == 3         \* calls of the public methods in one behaviour
MaxCrashes == 1     \* restarts (a new SampleDatabase on the same paths)
MaxSharedOps == 2   \* calls in one behaviour of two processes
MaxObjectiveOps == 2    \* calls in one behaviour of an ObjectiveFunction
MaxStored == 2      \* samples of earlier experiments in the database

Procs == {1, 2}
Seeds == {0, 1}
DataValues == {"d1", "d2"}
NameStrings == {"n1"}

(***************************************************************************)
(* Parameter values.  A value is an int, a float or a sequence of ints     *)
(* that is either a python list or a python tuple.  A float is kept as its *)
(* number of quarters, so that every float of the model is a binary        *)
(* fraction that python computes exactly.                                  *)
(***************************************************************************)
IntV(n) == [kind |-> "int", elems |-> <<n>>]
FloatV(q) == [kind |-> "float", elems |-> <<q>>]
ListV(s) == [kind |-> "list", elems |-> s]
TupleV(s) == [kind |-> "tuple", elems |-> s]

\* {'x1': -1}, {'x1': [1]} and {'x1': (1,)}: the last two are different
\* dicts for python's == and have the same dict_hash
ParamSets ==
    { ("x1" :> IntV(-1)), ("x1" :> ListV(<<1>>)), ("x1" :> TupleV(<<1>>)) }

NoParams == [k \in {} |-> IntV(0)]

IsNum(v) == v.kind \in {"int", "float"}

\* the number of quarters of a numeric value
Quarters(v) == IF v.kind = "int" THEN 4 * v.elems[1] ELSE v.elems[1]

\* python's == on two parameter values: a list never equals a tuple, an int
\* equals the float of the same value
ValueEq(v, w) ==
    IF IsNum(v) /\ IsNum(w)
    THEN Quarters(v) = Quarters(w)
    ELSE v.kind = w.kind /\ v.elems = w.elems

\* python's == on two dicts
DictEq(P, Q) ==
    /\ DOMAIN P = DOMAIN Q
    /\ \A k \in DOMAIN P : ValueEq(P[k], Q[k])

(***************************************************************************)
(* dict_hash.  CPython's hash of an int n is n itself for small n, except  *)
(* hash(-1) = -2; the hash of a str depends on the hash seed; the hash of  *)
(* a tuple is computed from the hashes of its elements in order and the    *)
(* hash of a frozenset from the hashes of its elements.  A token is kept   *)
(* as the set of item hashes it is computed from.  The hash of a float is  *)
(* the hash of the int of the same value when there is one; the hashes of  *)
(* the other floats of the model differ from each other and from these.    *)
(***************************************************************************)
pyhash(n) == IF n = -1 THEN -2 ELSE n

\* a dict_hash that leaves every value as it is
CanonKeep(v) == v

\* lines 252-254: every list becomes a tuple
Canon(v) == IF v.kind = "list" THEN TupleV(v.elems) ELSE v

ValueHash(v) ==
    IF v.kind = "int"
    THEN <<0, pyhash(v.elems[1])>>
    ELSE IF v.kind = "float"
    THEN IF v.elems[1] % 4 = 0
         THEN <<0, pyhash(v.elems[1] \div 4)>>
         ELSE <<2, v.elems[1]>>
    ELSE IF v.kind = "list"
    THEN <<3>>      \* TypeError: unhashable type: 'list'
    ELSE <<1>> \o [i \in 1..Len(v.elems) |-> pyhash(v.elems[i])]

dict_hash(sd, P) == { <<sd, k, ValueHash(Canon(P[k]))>> : k \in DOMAIN P }

Tokens == { dict_hash(sd, P) : sd \in Seeds, P \in ParamSets }

(***************************************************************************)
(* Samples and their names                                                 *)
(***************************************************************************)
NoName == [kind |-> "none", s |-> "", tok |-> {}]
StrName(n) == [kind |-> "str", s |-> n, tok |-> {}]
\* str(hash)
HashName(t) == [kind |-> "hash", s |-> "", tok |-> t]

GivenNames == { StrName(n) : n \in NameStrings } \cup {NoName}

NoSample == [name |-> NoName, parameters |-> NoParams, data |-> "none"]

\* the samples handed to add_sample with the parameter set P, "the parameters
\* that were used to generate the sample" (line 204)
Samples(P) == [name : GivenNames, parameters : {P}, data : DataValues]

\* The mapping view of a Sample that dict_hash(sample) hashes: its defining
\* parameters.
SampleAsDict(sample) == sample.parameters

(***************************************************************************)
(* Helpers on finite maps                                                  *)
(***************************************************************************)
EmptyMap == [k \in {} |-> 0]
Put(f, k, v) == (k :> v) @@ f
Del(f, k) == [x \in DOMAIN f \ {k} |-> f[x]]

(***************************************************************************)
(* ObjectiveFunction: its configuration.  impl is "bayropt" for            *)
(* src/bayropt/objective_function.py and "legacy" for                      *)
(* src/objective_function.py, whose constructor has no normalization flag. *)
(* The parameters are a (a float, optimised), b (an int) and c (in no      *)
(* mapping of the configuration).  Every dict is iterated in the order in  *)
(* which it was filled, which is the order a, b, c throughout.             *)
(***************************************************************************)
KeyOrder == <<"a", "b", "c">>

\* the keys of a dict in iteration order
Keys(P) == SelectSeq(KeyOrder, LAMBDA k : k \in DOMAIN P)

\* default_params: {'a': 1.0, 'b': 2}
DefaultParams == ("a" :> FloatV(4)) @@ ("b" :> IntV(2))

\* design_space: {'a': (1.0, 3.0)} and {'a': (1.0, 3.0), 'b': (1, 3)}
DesignSpaces ==
    { ("a" :> <<FloatV(4), FloatV(12)>>),
      ("a" :> <<FloatV(4), FloatV(12)>>) @@ ("b" :> <<IntV(1), IntV(3)>>) }

NoObjective ==
    [impl |-> "none", default_params |-> NoParams, design_space |-> EmptyMap,
     normalization |-> FALSE]

ObjectiveFunctions ==
    { o \in [impl : {"bayropt", "legacy"}, default_params : {DefaultParams},
             design_space : DesignSpaces, normalization : BOOLEAN] :
        o.impl = "legacy" => ~o.normalization }

\* The scalar a PerformanceMeasure computes from a sample: a function of the
\* sample's data alone.
performance_measure(sample) == <<"measure", sample.data>>

NoValue == <<>>

\* no exception / the ValueError of preprocess_optimized_params with the
\* parameter it names and the bound it names
NoError == [kind |-> "none", key |-> "", bound |-> ""]
ParamError(kind, key, bound) == [kind |-> kind, key |-> key, bound |-> bound]

\* int(x) of a float x: the number of quarters q cut to its whole part
Trunc(q) == IF q >= 0 THEN q \div 4 ELSE -((-q) \div 4)

\* a preprocessing that leaves the type of every value as it is
CastKeep(d, v) == v

\* type(default)(p_value): the cast to the type of the default value
Cast(d, v) ==
    IF d.kind = v.kind THEN v
    ELSE IF d.kind = "float" THEN FloatV(Quarters(v))
    ELSE IntV(Trunc(Quarters(v)))

\* a bounds check that also refuses the bounds themselves
BoundsErrorStrict(name, opt, bounds) ==
    IF name \notin DOMAIN opt
    THEN ParamError("missing", name, "")
    ELSE IF Quarters(opt[name]) >= Quarters(bounds[2])
    THEN ParamError("bounds", name, "max")
    ELSE IF Quarters(opt[name]) <= Quarters(bounds[1])
    THEN ParamError("bounds", name, "min")
    ELSE NoError

\* lines 174-182: the checks of one optimised parameter
BoundsError(name, opt, bounds) ==
    IF name \notin DOMAIN opt
    THEN ParamError("missing", name, "")
    ELSE IF Quarters(opt[name]) > Quarters(bounds[2])
    THEN ParamError("bounds", name, "max")
    ELSE IF Quarters(opt[name]) < Quarters(bounds[1])
    THEN ParamError("bounds", name, "min")
    ELSE NoError

\* first loop of preprocess_optimized_params over the design space
RECURSIVE CheckBounds(_, _, _)
CheckBounds(o, opt, ks) ==
    IF ks = <<>> THEN NoError
    ELSE LET e == BoundsError(Head(ks), opt, o.design_space[Head(ks)])
         IN IF e # NoError THEN e ELSE CheckBounds(o, opt, Tail(ks))

\* second loop of preprocess_optimized_params over the request, which it
\* changes in place.  rounding_decimal_places is 0, its default: no rounding.
RECURSIVE CastLoop(_, _, _)
CastLoop(o, opt, ks) ==
    IF ks = <<>> THEN [err |-> NoError, params |-> opt]
    ELSE LET p_name == Head(ks)
         IN IF p_name \notin DOMAIN o.design_space
            THEN [err |-> ParamError("scope", p_name, ""), params |-> opt]
            ELSE CastLoop(o,
                    [opt EXCEPT ![p_name] = Cast(o.default_params[p_name], @)],
                    Tail(ks))

\* a preprocessing without the second loop
preprocess_without_scope_check(o, opt) ==
    [err |-> CheckBounds(o, opt, Keys(o.design_space)), params |-> opt]

preprocess_optimized_params(o, opt) ==
    LET e == CheckBounds(o, opt, Keys(o.design_space))
    IN IF e # NoError THEN [err |-> e, params |-> opt]
       ELSE CastLoop(o, opt, Keys(opt))

\* the type of an arithmetic result: a float as soon as one operand is
Arith(q, vs) ==
    IF \E v \in vs : v.kind = "float" THEN FloatV(q) ELSE IntV(q \div 4)

\* value * (max - min) + min
Denormalized(v, bounds) ==
    LET param_range == Quarters(bounds[2]) - Quarters(bounds[1])
    IN Arith((Quarters(v) * param_range) \div 4 + Quarters(bounds[1]),
             {v, bounds[1], bounds[2]})

\* (value - min) / (max - min): python's true division gives a float
Normalized(v, bounds) ==
    LET param_range == Quarters(bounds[2]) - Quarters(bounds[1])
    IN FloatV(((Quarters(v) - Quarters(bounds[1])) * 4) \div param_range)

\* The loop of normalize_parameters and denormalize_parameters over the
\* design space, writing into the mapping m: a parameter that m lacks ends
\* it with the KeyError, after the parameters before it were written.
RECURSIVE ScaleLoop(_, _, _, _)
ScaleLoop(o, m, ks, to_unit) ==
    IF ks = <<>> THEN [status |-> "ok", params |-> m]
    ELSE LET name == Head(ks)
             bounds == o.design_space[name]
         IN IF name \notin DOMAIN m
            THEN [status |-> "KeyError", params |-> m]
            ELSE ScaleLoop(o,
                    [m EXCEPT ![name] = IF to_unit THEN Normalized(@, bounds)
                                        ELSE Denormalized(@, bounds)],
                    Tail(ks), to_unit)

\* What a call leaves behind: its outcome, the mapping it returns (ret) and
\* the mapping the caller passed, as it is afterwards (caller).
\* denormalize_parameters writes into the mapping it was given.
denormalize_parameters(o, optimized_params) ==
    LET r == ScaleLoop(o, optimized_params, Keys(o.design_space), FALSE)
    IN [status |-> r.status,
        ret |-> IF r.status = "ok" THEN r.params ELSE NoParams,
        caller |-> r.params]

\* a normalisation that writes into the mapping it was given in either module
normalize_parameters_in_place(o, optimized_params) ==
    LET r == ScaleLoop(o, optimized_params, Keys(o.design_space), TRUE)
    IN [status |-> r.status,
        ret |-> IF r.status = "ok" THEN r.params ELSE NoParams,
        caller |-> r.params]

\* normalize_parameters of bayropt writes into optimized_params.copy(), the
\* one of src/objective_function.py into the mapping it was given
normalize_parameters(o, optimized_params) ==
    LET r == ScaleLoop(o, optimized_params, Keys(o.design_space), TRUE)
    IN [status |-> r.status,
        ret |-> IF r.status = "ok" THEN r.params ELSE NoParams,
        caller |-> IF o.impl = "bayropt" THEN optimized_params ELSE r.params]

\* a loop that never counts the optimised parameters it finds
RECURSIVE DefinedLoopUncounted(_, _, _, _)
DefinedLoopUncounted(o, complete_params, ks, nr_of_optimized_params_found) ==
    IF ks = <<>> THEN "True"
    ELSE LET param == Head(ks)
         IN IF param \in DOMAIN o.design_space
            THEN DefinedLoopUncounted(o, complete_params, Tail(ks), 0)
            ELSE IF param \notin DOMAIN o.default_params
            THEN "KeyError"
            ELSE IF ~ValueEq(complete_params[param], o.default_params[param])
            THEN "False"
            ELSE DefinedLoopUncounted(o, complete_params, Tail(ks), 0)

\* _defined_by: "True", "False", or the exception it ends with
RECURSIVE DefinedLoop(_, _, _, _)
DefinedLoop(o, complete_params, ks, nr_of_optimized_params_found) ==
    IF ks = <<>>
    THEN IF nr_of_optimized_params_found # Cardinality(DOMAIN o.design_space)
         THEN "LookupError" ELSE "True"
    ELSE LET param == Head(ks)
         IN IF param \in DOMAIN o.design_space
            THEN DefinedLoop(o, complete_params, Tail(ks),
                             nr_of_optimized_params_found + 1)
            ELSE IF param \notin DOMAIN o.default_params
            THEN "KeyError"
            ELSE IF ~ValueEq(complete_params[param], o.default_params[param])
            THEN "False"
            ELSE DefinedLoop(o, complete_params, Tail(ks),
                             nr_of_optimized_params_found)

\* a test that looks at the optimised parameters only
_defined_by_optimised_only(o, complete_params) ==
    IF DOMAIN o.design_space \subseteq DOMAIN complete_params
    THEN "True" ELSE "LookupError"

_defined_by(o, complete_params) ==
    DefinedLoop(o, complete_params, Keys(complete_params), 0)

\* the loop of samples_filtered over the parameters x of one sample: "usable",
\* "unusable", or the exception it ends with
RECURSIVE UsableLoop(_, _, _, _)
UsableLoop(o, fixed_params, x, ks) ==
    IF ks = <<>> THEN "usable"
    ELSE LET p_name == Head(ks)
             p_value == x[p_name]
         IN IF p_name \in DOMAIN fixed_params
            THEN IF ~ValueEq(o.default_params[p_name], p_value)
                 THEN "unusable"
                 ELSE UsableLoop(o, fixed_params, x, Tail(ks))
            ELSE IF p_name \notin DOMAIN o.design_space
            THEN "KeyError"
            ELSE IF \/ Quarters(p_value) < Quarters(o.design_space[p_name][1])
                    \/ Quarters(p_value) > Quarters(o.design_space[p_name][2])
            THEN "unusable"
            ELSE UsableLoop(o, fixed_params, x, Tail(ks))

\* database_path holds the index file ("file"), nothing ("absent") or a
\* directory ("dir"); sample_dir_path is a directory ("dir") or not
\* ("absent").  A constructed SampleDatabase has found or made the index
\* file, in an existing sample directory.
OpenPaths == [database |-> "file", sample_dir |-> "dir"]

IdleCur ==
    [op |-> "none", P |-> NoParams, h |-> {}, sample |-> NoSample,
     override |-> FALSE, nested |-> FALSE, miss |-> FALSE, gens |-> 0,
     status |-> "none", result |-> NoSample,
     genarg |-> NoParams, ran |-> NoParams, yielded |-> <<>>, visited |-> <<>>, remaining |-> {},
     pre |-> [db |-> EmptyMap, disk |-> EmptyMap, files |-> EmptyMap,
              paths |-> OpenPaths],
     given |-> NoName, arg |-> NoParams, opt |-> NoParams, ret |-> NoParams,
     fixed |-> NoParams, err |-> NoError, value |-> NoValue]

Snapshot(p) ==
    [db |-> db_dict[p], disk |-> disk_db, files |-> files, paths |-> paths]

\* What is remembered of a completed call: for add_sample the sample is the
\* one stored, for __getitem__ the one returned.  A restart keeps the call
\* that was completed right before it in P and sample (clean), or nothing.
NoEvent ==
    [op |-> "none", proc |-> 0, P |-> NoParams, status |-> "none",
     sample |-> NoSample, gens |-> 0, clean |-> FALSE, sameseed |-> FALSE,
     h |-> {}, arg |-> NoParams, value |-> NoValue]

Event(p) ==
    [NoEvent EXCEPT !.op = cur[p].op, !.proc = p, !.P = cur[p].P,
                    !.status = cur[p].status,
                    !.sample = IF cur[p].op = "add" THEN cur[p].sample
                               ELSE cur[p].result,
                    !.gens = cur[p].gens, !.h = cur[p].h,
                    !.arg = cur[p].arg, !.value = cur[p].value]

Init ==
    /\ disk_db = EmptyMap
    /\ files = EmptyMap
    /\ live = {1}
    /\ db_dict = [p \in Procs |-> EmptyMap]
    /\ seed = [p \in Procs |-> 0]
    /\ pc = [p \in Procs |-> "idle"]
    /\ cur = [p \in Procs |-> IdleCur]
    /\ last = NoEvent
    /\ nops = 0
    /\ ncrash = 0
    /\ of = NoObjective
    /\ paths = OpenPaths

\* a method ends: normally (status "ok") or with the named exception.
\* evaluate ends with the performance measure of the sample it obtained.
Finish(p, c, st) ==
    /\ cur' = [cur EXCEPT ![p] =
                 [c EXCEPT !.status = st,
                           !.value = IF c.op = "evaluate" /\ st = "ok"
                                     THEN performance_measure(c.result)
                                     ELSE NoValue]]
    /\ pc' = [pc EXCEPT ![p] = "ret"]

(***************************************************************************)
(* SampleDatabase.__getitem__                                              *)
(***************************************************************************)
\* exists() answering False for every request
GetItemCallNoLookup(p, P) ==
    /\ p \in live /\ pc[p] = "idle" /\ nops < MaxOps
    /\ nops' = nops + 1
    /\ cur' = [cur EXCEPT ![p] =
                 [IdleCur EXCEPT !.op = "get", !.P = P,
                                 !.h = dict_hash(seed[p], P),
                                 !.status = "run", !.pre = Snapshot(p),
                                 !.miss = TRUE]]
    /\ pc' = [pc EXCEPT ![p] = "g_gen"]
    /\ UNCHANGED <<disk_db, files, db_dict, seed, live, last, ncrash, of,
                 paths>>

\* lines 111-112: hash the request and test exists()
GetItemCall(p, P) ==
    /\ p \in live /\ pc[p] = "idle" /\ nops < MaxOps
    /\ nops' = nops + 1
    /\ LET h == dict_hash(seed[p], P)
           c == [IdleCur EXCEPT !.op = "get", !.P = P, !.h = h,
                                !.status = "run", !.pre = Snapshot(p),
                                !.miss = (h \notin DOMAIN db_dict[p])]
       IN /\ cur' = [cur EXCEPT ![p] = c]
          /\ pc' = [pc EXCEPT ![p] =
                        IF h \in DOMAIN db_dict[p] THEN "g_load" ELSE "g_gen"]
    /\ UNCHANGED <<disk_db, files, db_dict, seed, live, last, ncrash, of,
                 paths>>

\* the generator asked a second time for the same request
GenerateTwice(p) ==
    /\ pc[p] = "g_gen"
    /\ \E nm \in GivenNames, d \in DataValues :
         /\ cur' = [cur EXCEPT ![p] =
                      [@ EXCEPT !.gens = @ + 2, !.genarg = cur[p].P,
                                !.ran = cur[p].P, !.given = nm,
                                !.sample = [name |-> nm,
                                            parameters |-> IF nm = NoName
                                                           THEN NoParams
                                                           ELSE cur[p].P,
                                            data |-> d],
                                !.nested = TRUE, !.override = FALSE]]
         /\ pc' = [pc EXCEPT ![p] = "a_pickle"]
    /\ UNCHANGED <<disk_db, files, db_dict, seed, live, last, nops, ncrash, of,
                 paths>>

\* a pipeline-backed source that returns whatever the pipeline produced,
\* without the comparison of lines 292-293
GenerateUnchecked(p) ==
    /\ pc[p] = "g_gen"
    /\ \E nm \in GivenNames, d \in DataValues,
          ran \in ParamSets \cup {cur[p].P} :
         /\ nm = NoName => ran = cur[p].P
         /\ cur' = [cur EXCEPT ![p] =
                      [@ EXCEPT !.gens = @ + 1, !.genarg = cur[p].P,
                                !.ran = ran, !.given = nm,
                                !.sample = [name |-> nm,
                                            parameters |-> IF nm = NoName
                                                           THEN NoParams
                                                           ELSE ran,
                                            data |-> d],
                                !.nested = TRUE, !.override = FALSE]]
         /\ pc' = [pc EXCEPT ![p] = "a_pickle"]
    /\ UNCHANGED <<disk_db, files, db_dict, seed, live, last, nops, ncrash, of,
                 paths>>

\* line 115: self.sample_generator[params_dict].  The pipeline-backed source
\* (lines 282-294) names the sample after its results directory and raises
\* RuntimeError when the pipeline ran with other parameters; the fake source
\* (lines 336-346) returns a new MapMatcherSample() to which it has given
\* its error lists only: neither a name nor the parameters.
Generate(p) ==
    /\ pc[p] = "g_gen"
    /\ \E nm \in GivenNames, d \in DataValues,
          ran \in ParamSets \cup {cur[p].P} :
         LET c == [cur[p] EXCEPT !.gens = @ + 1, !.genarg = cur[p].P,
                                 !.ran = ran,
                                 !.nested = TRUE, !.override = FALSE]
         IN IF nm # NoName /\ ~DictEq(ran, cur[p].P)
            THEN \* line 293: the pipeline ran with the parameters ran
                 Finish(p, c, "RuntimeError")
            ELSE /\ ran = cur[p].P
                 /\ cur' = [cur EXCEPT ![p] =
                              [c EXCEPT !.given = nm,
                                        !.sample = [name |-> nm,
                                                    parameters |->
                                                        IF nm = NoName
                                                        THEN NoParams
                                                        ELSE cur[p].P,
                                                    data |-> d]]]
                 /\ pc' = [pc EXCEPT ![p] = "a_pickle"]
    /\ UNCHANGED <<disk_db, files, db_dict, seed, live, last, nops, ncrash, of,
                 paths>>

\* the lookup without the comparison of lines 124-125
GetItemLoadNoCheck(p) ==
    /\ pc[p] = "g_load"
    /\ LET c == cur[p]
           db_entry == db_dict[p][c.h]
       IN IF db_entry.pickle_name \notin DOMAIN files
          THEN Finish(p, c, "FileNotFoundError")
          ELSE Finish(p, [c EXCEPT !.result = files[db_entry.pickle_name]], "ok")
    /\ UNCHANGED <<disk_db, files, db_dict, seed, live, last, nops, ncrash, of,
                 paths>>

\* lines 119-126: read the entry, unpickle the payload, compare parameters
GetItemLoad(p) ==
    /\ pc[p] = "g_load"
    /\ LET c == cur[p]
           db_entry == db_dict[p][c.h]
       IN IF db_entry.pickle_name \notin DOMAIN files
          THEN Finish(p, c, "FileNotFoundError")
          ELSE IF ~DictEq(c.P, db_entry.params_dict)
               THEN Finish(p, c, "LookupError")
               ELSE Finish(p, [c EXCEPT !.result = files[db_entry.pickle_name]],
                           IF c.op \in {"of_iter", "filtered"}
                           THEN "LookupError" \* raised by _defined_by
                           ELSE "ok")
    /\ UNCHANGED <<disk_db, files, db_dict, seed, live, last, nops, ncrash, of,
                 paths>>

(***************************************************************************)
(* SampleDatabase.add_sample                                               *)
(***************************************************************************)
AddSampleCall(p, S, P, ov) ==
    /\ p \in live /\ pc[p] = "idle" /\ nops < MaxOps
    /\ nops' = nops + 1
    /\ cur' = [cur EXCEPT ![p] =
                 [IdleCur EXCEPT !.op = "add", !.P = P,
                                 !.h = dict_hash(seed[p], P),
                                 !.sample = S, !.given = S.name,
                                 !.override = ov,
                                 !.status = "run", !.pre = Snapshot(p)]]
    /\ pc' = [pc EXCEPT ![p] = "a_pickle"]
    /\ UNCHANGED <<disk_db, files, db_dict, seed, live, last, ncrash, of,
                 paths>>

\* a _pickle_sample without the test of lines 179-180
AddSamplePickleNoCheck(p) ==
    /\ pc[p] = "a_pickle"
    /\ LET c == cur[p]
           nm == IF c.sample.name = NoName
                 THEN HashName(dict_hash(seed[p], SampleAsDict(c.sample)))
                 ELSE c.sample.name
       IN /\ cur' = [cur EXCEPT ![p] =
                        [c EXCEPT !.sample = [c.sample EXCEPT !.name = nm]]]
          /\ pc' = [pc EXCEPT ![p] = "a_write"]
    /\ UNCHANGED <<disk_db, files, db_dict, seed, live, last, nops, ncrash, of,
                   paths>>

\* lines 207-209 and the guard of _pickle_sample, lines 178-180
AddSamplePickle(p) ==
    /\ pc[p] = "a_pickle"
    /\ LET c == cur[p]
           nm == IF c.sample.name = NoName
                 THEN HashName(dict_hash(seed[p], SampleAsDict(c.sample)))
                 ELSE c.sample.name
           c2 == [c EXCEPT !.sample = [c.sample EXCEPT !.name = nm]]
       IN IF ~c.override /\ nm \in DOMAIN files
          THEN Finish(p, c2, "ValueError")
          ELSE /\ cur' = [cur EXCEPT ![p] = c2]
               /\ pc' = [pc EXCEPT ![p] = "a_write"]
    /\ UNCHANGED <<disk_db, files, db_dict, seed, live, last, nops, ncrash, of,
                 paths>>

\* _pickle_sample leaving an existing file as it is when asked to override
AddSampleWriteKeep(p) ==
    /\ pc[p] = "a_write"
    /\ files' = IF cur[p].sample.name \in DOMAIN files THEN files
                ELSE Put(files, cur[p].sample.name, cur[p].sample)
    /\ pc' = [pc EXCEPT ![p] = "a_check"]
    /\ UNCHANGED <<disk_db, db_dict, seed, live, cur, last, nops, ncrash, of,
                 paths>>

\* add_sample registering the sample without having written its payload
AddSampleWriteNothing(p) ==
    /\ pc[p] = "a_write"
    /\ pc' = [pc EXCEPT ![p] = "a_check"]
    /\ UNCHANGED <<disk_db, files, db_dict, seed, live, cur, last, nops, ncrash, of,
                 paths>>

\* _pickle_sample, lines 181-183: the payload file is written
AddSampleWrite(p) ==
    /\ pc[p] = "a_write"
    /\ files' = Put(files, cur[p].sample.name, cur[p].sample)
    /\ pc' = [pc EXCEPT ![p] = "a_check"]
    /\ UNCHANGED <<disk_db, db_dict, seed, live, cur, last, nops, ncrash, of,
                 paths>>

\* the registration without the duplicate check of lines 213-215
AddSampleRegisterNoCheck(p) ==
    /\ pc[p] = "a_check"
    /\ db_dict' = [db_dict EXCEPT ![p] =
           Put(@, dict_hash(seed[p], cur[p].P),
               [pickle_name |-> cur[p].sample.name, params_dict |-> cur[p].P])]
    /\ pc' = [pc EXCEPT ![p] = "a_save"]
    /\ UNCHANGED <<disk_db, files, seed, live, cur, last, nops, ncrash, of,
                 paths>>

\* a duplicate check that reads the index file instead of self._db_dict
AddSampleRegisterOnDisk(p) ==
    /\ pc[p] = "a_check"
    /\ LET c == cur[p]
           params_hashed == dict_hash(seed[p], c.P)
       IN IF ~c.override /\ params_hashed \in DOMAIN disk_db
          THEN /\ Finish(p, c, "LookupError")
               /\ UNCHANGED db_dict
          ELSE /\ db_dict' = [db_dict EXCEPT ![p] =
                     Put(@, params_hashed,
                         [pickle_name |-> c.sample.name, params_dict |-> c.P])]
               /\ pc' = [pc EXCEPT ![p] = "a_save"]
               /\ UNCHANGED cur
    /\ UNCHANGED <<disk_db, files, seed, live, last, nops, ncrash, of,
                 paths>>

\* a registration under the hash of the sample instead of that of params_dict
AddSampleRegisterBySample(p) ==
    /\ pc[p] = "a_check"
    /\ LET c == cur[p]
           params_hashed == dict_hash(seed[p], SampleAsDict(c.sample))
       IN IF ~c.override /\ params_hashed \in DOMAIN db_dict[p]
          THEN /\ Finish(p, c, "LookupError")
               /\ UNCHANGED db_dict
          ELSE /\ db_dict' = [db_dict EXCEPT ![p] =
                     Put(@, params_hashed,
                         [pickle_name |-> c.sample.name, params_dict |-> c.P])]
               /\ pc' = [pc EXCEPT ![p] = "a_save"]
               /\ UNCHANGED cur
    /\ UNCHANGED <<disk_db, files, seed, live, last, nops, ncrash, of, paths>>

\* a registration that rewrites the index file at once
AddSampleRegisterSaving(p) ==
    /\ pc[p] = "a_check"
    /\ LET c == cur[p]
           params_hashed == dict_hash(seed[p], c.P)
       IN IF ~c.override /\ params_hashed \in DOMAIN db_dict[p]
          THEN /\ Finish(p, c, "LookupError")
               /\ UNCHANGED <<db_dict, disk_db>>
          ELSE /\ db_dict' = [db_dict EXCEPT ![p] =
                     Put(@, params_hashed,
                         [pickle_name |-> c.sample.name, params_dict |-> c.P])]
               /\ disk_db' = db_dict'[p]
               /\ pc' = [pc EXCEPT ![p] = "a_save"]
               /\ UNCHANGED cur
    /\ UNCHANGED <<files, seed, live, last, nops, ncrash, of, paths>>

\* lines 211-218: the duplicate check and the in-memory registration
AddSampleRegister(p) ==
    /\ pc[p] = "a_check"
    /\ LET c == cur[p]
           params_hashed == dict_hash(seed[p], c.P)
       IN IF ~c.override /\ params_hashed \in DOMAIN db_dict[p]
          THEN /\ Finish(p, c, "LookupError")
               /\ UNCHANGED db_dict
          ELSE /\ db_dict' = [db_dict EXCEPT ![p] =
                     Put(@, params_hashed,
                         [pickle_name |-> c.sample.name, params_dict |-> c.P])]
               /\ pc' = [pc EXCEPT ![p] = "a_save"]
               /\ UNCHANGED cur
    /\ UNCHANGED <<disk_db, files, seed, live, last, nops, ncrash, of,
                 paths>>

(***************************************************************************)
(* SampleDatabase._save, as the last statement of add_sample (line 219)    *)
(* and of remove_sample (line 242)                                         *)
(***************************************************************************)
\* a _save that does not reach the file
saveSkip(p) ==
    /\ pc[p] \in {"a_save", "r_save"}
    /\ IF cur[p].nested
       THEN pc' = [pc EXCEPT ![p] = "g_load"] /\ UNCHANGED cur
       ELSE Finish(p, cur[p], "ok")
    /\ UNCHANGED <<disk_db, files, db_dict, seed, live, last, nops, ncrash, of,
                 paths>>

\* lines 139-140: open(self._database_path, 'wb') and pickle.dump
save(p) ==
    /\ pc[p] \in {"a_save", "r_save"}
    /\ disk_db' = db_dict[p]
    /\ paths' = [paths EXCEPT !.database = "file"]
    /\ IF cur[p].nested
       THEN pc' = [pc EXCEPT ![p] = "g_load"] /\ UNCHANGED cur
       ELSE Finish(p, cur[p], "ok")
    /\ UNCHANGED <<files, db_dict, seed, live, last, nops, ncrash, of>>

(***************************************************************************)
(* SampleDatabase.remove_sample                                            *)
(***************************************************************************)
\* lines 228-229
RemoveSampleCall(p, h) ==
    /\ p \in live /\ pc[p] = "idle" /\ nops < MaxOps
    /\ nops' = nops + 1
    /\ LET c == [IdleCur EXCEPT !.op = "remove", !.h = h, !.status = "run",
                                !.pre = Snapshot(p)]
       IN IF h \notin DOMAIN db_dict[p]
          THEN Finish(p, c, "LookupError")
          ELSE /\ cur' = [cur EXCEPT ![p] = c]
               /\ pc' = [pc EXCEPT ![p] = "r_rm"]
    /\ UNCHANGED <<disk_db, files, db_dict, seed, live, last, ncrash, of,
                 paths>>

\* remove_sample leaving the payload file in place
RemoveSampleFileKeep(p) ==
    /\ pc[p] = "r_rm"
    /\ pc' = [pc EXCEPT ![p] = "r_del"]
    /\ UNCHANGED <<disk_db, files, db_dict, seed, live, cur, last, nops, ncrash, of,
                 paths>>

\* lines 231-237
RemoveSampleFile(p) ==
    /\ pc[p] = "r_rm"
    /\ LET pickle_name == db_dict[p][cur[p].h].pickle_name
       IN files' = IF pickle_name \in DOMAIN files
                   THEN Del(files, pickle_name)
                   ELSE files
    /\ pc' = [pc EXCEPT ![p] = "r_del"]
    /\ UNCHANGED <<disk_db, db_dict, seed, live, cur, last, nops, ncrash, of,
                 paths>>

\* line 239
RemoveSampleDel(p) ==
    /\ pc[p] = "r_del"
    /\ db_dict' = [db_dict EXCEPT ![p] = Del(@, cur[p].h)]
    /\ pc' = [pc EXCEPT ![p] = "r_save"]
    /\ UNCHANGED <<disk_db, files, seed, live, cur, last, nops, ncrash, of,
                 paths>>

(***************************************************************************)
(* SampleDatabase.__iter__, driven to exhaustion by a for loop             *)
(***************************************************************************)
IterCall(p) ==
    /\ p \in live /\ pc[p] = "idle" /\ nops < MaxOps
    /\ nops' = nops + 1
    /\ cur' = [cur EXCEPT ![p] =
                 [IdleCur EXCEPT !.op = "iter", !.status = "run",
                                 !.remaining = DOMAIN db_dict[p],
                                 !.pre = Snapshot(p)]]
    /\ pc' = [pc EXCEPT ![p] = "it_next"]
    /\ UNCHANGED <<disk_db, files, db_dict, seed, live, last, ncrash, of,
                 paths>>

\* an iterator that is exhausted after its first sample
IterNextOnce(p) ==
    /\ pc[p] = "it_next"
    /\ LET c == cur[p]
       IN IF c.remaining = {} \/ c.yielded # <<>>
          THEN Finish(p, c, "ok")
          ELSE \E k \in c.remaining :
                 LET pickle_name == db_dict[p][k].pickle_name
                 IN IF pickle_name \notin DOMAIN files
                    THEN Finish(p, c, "FileNotFoundError")
                    ELSE /\ cur' = [cur EXCEPT ![p] =
                               [c EXCEPT !.yielded = Append(@, files[pickle_name]),
                                         !.visited = Append(@, k),
                                         !.remaining = @ \ {k}]]
                         /\ UNCHANGED pc
    /\ UNCHANGED <<disk_db, files, db_dict, seed, live, last, nops, ncrash, of,
                 paths>>

\* lines 158-159: the next value of the dict, unpickled from its file
IterNext(p) ==
    /\ pc[p] = "it_next"
    /\ LET c == cur[p]
       IN IF c.remaining = {}
          THEN Finish(p, c, "ok")
          ELSE \E k \in c.remaining :
                 LET pickle_name == db_dict[p][k].pickle_name
                 IN IF pickle_name \notin DOMAIN files
                    THEN Finish(p, c, "FileNotFoundError")
                    ELSE /\ cur' = [cur EXCEPT ![p] =
                               [c EXCEPT !.yielded = Append(@, files[pickle_name]),
                                         !.visited = Append(@, k),
                                         !.remaining = @ \ {k}]]
                         /\ UNCHANGED pc
    /\ UNCHANGED <<disk_db, files, db_dict, seed, live, last, nops, ncrash, of,
                 paths>>

(***************************************************************************)
(* The call returns to its caller or its exception reaches the caller      *)
(***************************************************************************)
Return(p) ==
    /\ pc[p] = "ret"
    /\ last' = Event(p)
    /\ cur' = [cur EXCEPT ![p] = IdleCur]
    /\ pc' = [pc EXCEPT ![p] = "idle"]
    /\ UNCHANGED <<disk_db, files, db_dict, seed, live, nops, ncrash, of,
                 paths>>

(***************************************************************************)
(* The process stops at any point and a new SampleDatabase is constructed  *)
(* on the same paths: __init__, lines 89-94, loads the index file          *)
(***************************************************************************)
\* a constructor that starts from an empty index although the file exists
RestartEmpty(p) ==
    /\ p \in live /\ ncrash < MaxCrashes
    /\ ncrash' = ncrash + 1
    /\ \E sd \in Seeds : seed' = [seed EXCEPT ![p] = sd]
    /\ db_dict' = [db_dict EXCEPT ![p] = EmptyMap]
    /\ pc' = [pc EXCEPT ![p] = "idle"]
    /\ cur' = [cur EXCEPT ![p] = IdleCur]
    /\ last' = IF pc[p] = "idle" /\ last.proc = p /\ last.status = "ok"
                  /\ last.op \in {"add", "get"}
               THEN [last EXCEPT !.op = "restart", !.clean = TRUE,
                                 !.sameseed = (seed'[p] = seed[p])]
               ELSE [NoEvent EXCEPT !.op = "restart", !.proc = p]
    /\ UNCHANGED <<disk_db, files, live, nops, of,
                 paths>>

Restart(p) ==
    /\ p \in live /\ ncrash < MaxCrashes
    /\ ncrash' = ncrash + 1
    /\ \E sd \in Seeds : seed' = [seed EXCEPT ![p] = sd]
    /\ db_dict' = [db_dict EXCEPT ![p] = disk_db]
    /\ pc' = [pc EXCEPT ![p] = "idle"]
    /\ cur' = [cur EXCEPT ![p] = IdleCur]
    /\ last' = IF pc[p] = "idle" /\ last.proc = p /\ last.status = "ok"
                  /\ last.op \in {"add", "get"}
               THEN [last EXCEPT !.op = "restart", !.clean = TRUE,
                                 !.sameseed = (seed'[p] = seed[p])]
               ELSE [NoEvent EXCEPT !.op = "restart", !.proc = p]
    /\ UNCHANGED <<disk_db, files, live, nops, of,
                 paths>>

Next ==
    \/ \E p \in Procs, P \in ParamSets : GetItemCall(p, P)
    \/ \E p \in Procs : Generate(p)
    \/ \E p \in Procs : GetItemLoad(p)
    \/ \E p \in Procs, P \in ParamSets, ov \in BOOLEAN : \E S \in Samples(P) :
            AddSampleCall(p, S, P, ov)
    \/ \E p \in Procs : AddSamplePickle(p)
    \/ \E p \in Procs : AddSampleWrite(p)
    \/ \E p \in Procs : AddSampleRegister(p)
    \/ \E p \in Procs : save(p)
    \/ \E p \in Procs, h \in Tokens : RemoveSampleCall(p, h)
    \/ \E p \in Procs : RemoveSampleFile(p)
    \/ \E p \in Procs : RemoveSampleDel(p)
    \/ \E p \in Procs : IterCall(p)
    \/ \E p \in Procs : IterNext(p)
    \/ \E p \in Procs : Return(p)
    \/ \E p \in Procs : Restart(p)

Spec == Init /\ [][Next]_vars

(***************************************************************************)
(* ObjectiveFunction.evaluate: its keyword arguments, optimized_params,   *)
(* arrive in a dict of the call's own.  After preprocessing and            *)
(* denormalisation it asks the sample source, self.sample_source[...],     *)
(* which continues as SampleDatabase.__getitem__.                          *)
(***************************************************************************)
EvaluateCall(p, optimized_params) ==
    /\ p \in live /\ pc[p] = "idle" /\ nops < MaxOps
    /\ nops' = nops + 1
    /\ LET pre == preprocess_optimized_params(of, optimized_params)
           params == IF of.normalization
                     THEN denormalize_parameters(of, pre.params).ret
                     ELSE pre.params
           \* default_params.copy() updated with the optimised parameters
           complete_params == params @@ of.default_params
           h == dict_hash(seed[p], complete_params)
           c == [IdleCur EXCEPT !.op = "evaluate", !.arg = optimized_params,
                                !.status = "run", !.pre = Snapshot(p)]
       IN IF pre.err # NoError
          THEN Finish(p, [c EXCEPT !.err = pre.err], "ValueError")
          ELSE /\ cur' = [cur EXCEPT ![p] =
                            [c EXCEPT !.P = complete_params, !.h = h,
                                      !.opt = params,
                                      !.miss = (h \notin DOMAIN db_dict[p])]]
               /\ pc' = [pc EXCEPT ![p] =
                            IF h \in DOMAIN db_dict[p] THEN "g_load"
                            ELSE "g_gen"]
    /\ UNCHANGED <<disk_db, files, db_dict, seed, live, last, ncrash, of,
                 paths>>

(***************************************************************************)
(* normalize_parameters and denormalize_parameters called on a mapping m   *)
(* of the caller                                                           *)
(***************************************************************************)
ScaleCall(p, op, m, r) ==
    /\ p \in live /\ pc[p] = "idle" /\ nops < MaxOps
    /\ nops' = nops + 1
    /\ Finish(p, [IdleCur EXCEPT !.op = op, !.arg = m, !.opt = r.caller,
                                 !.ret = r.ret, !.pre = Snapshot(p)],
              r.status)
    /\ UNCHANGED <<disk_db, files, db_dict, seed, live, last, ncrash, of,
                 paths>>

NormalizeCall(p, m) == ScaleCall(p, "normalize", m, normalize_parameters(of, m))

DenormalizeCall(p, m) ==
    ScaleCall(p, "denormalize", m, denormalize_parameters(of, m))

(***************************************************************************)
(* ObjectiveFunction.__iter__ and samples_filtered, driven to exhaustion   *)
(* by a for loop.  Both run over SampleDatabase.__iter__.                  *)
(***************************************************************************)
ObjectiveIterCall(p) ==
    /\ p \in live /\ pc[p] = "idle" /\ nops < MaxOps
    /\ nops' = nops + 1
    /\ cur' = [cur EXCEPT ![p] =
                 [IdleCur EXCEPT !.op = "of_iter", !.status = "run",
                                 !.remaining = DOMAIN db_dict[p],
                                 !.pre = Snapshot(p)]]
    /\ pc' = [pc EXCEPT ![p] = "oi_next"]
    /\ UNCHANGED <<disk_db, files, db_dict, seed, live, last, ncrash, of,
                 paths>>

SamplesFilteredCall(p, fixed_params) ==
    /\ p \in live /\ pc[p] = "idle" /\ nops < MaxOps
    /\ nops' = nops + 1
    /\ cur' = [cur EXCEPT ![p] =
                 [IdleCur EXCEPT !.op = "filtered", !.status = "run",
                                 !.fixed = fixed_params,
                                 !.remaining = DOMAIN db_dict[p],
                                 !.pre = Snapshot(p)]]
    /\ pc' = [pc EXCEPT ![p] = "oi_next"]
    /\ UNCHANGED <<disk_db, files, db_dict, seed, live, last, ncrash, of,
                 paths>>

\* The exception with which _defined_by ends when the sample lacks an
\* optimised parameter: building the LookupError evaluates
\* str(self.sample_source[complete_params]), a __getitem__ of the sample's
\* own parameters, whose errors come first.  "Generates" when the index of
\* p has no record under their hash: the __getitem__ then asks the
\* generator.
DefinedByRaises(p, complete_params) ==
    LET h == dict_hash(seed[p], complete_params)
    IN IF h \notin DOMAIN db_dict[p] THEN "Generates"
       ELSE IF db_dict[p][h].pickle_name \notin DOMAIN files
       THEN "FileNotFoundError"
       ELSE "LookupError"

\* One sample of the source: unpickled by SampleDatabase.__iter__, tested by
\* _defined_by and, in samples_filtered, by its loop over the parameters.
\* visited takes the record of every sample reached, yielded the samples
\* that are yielded.  When the __getitem__ inside _defined_by misses, the
\* call goes on as that __getitem__ (lines 113-126) and ends with the
\* LookupError once the sample is returned.
ObjectiveIterNext(p) ==
    /\ pc[p] = "oi_next"
    /\ LET c == cur[p]
       IN IF c.remaining = {}
          THEN Finish(p, c, "ok")
          ELSE \E k \in c.remaining :
                 LET pickle_name == db_dict[p][k].pickle_name
                     sample == files[pickle_name]
                     defined == _defined_by(of, sample.parameters)
                     usable == IF c.op = "filtered"
                               THEN UsableLoop(of, c.fixed, sample.parameters,
                                               Keys(sample.parameters))
                               ELSE "usable"
                     c2 == [c EXCEPT !.visited = Append(@, k),
                                     !.remaining = @ \ {k}]
                 IN IF pickle_name \notin DOMAIN files
                    THEN Finish(p, c, "FileNotFoundError")
                    ELSE IF defined = "LookupError"
                    THEN IF DefinedByRaises(p, sample.parameters) = "Generates"
                         THEN /\ cur' = [cur EXCEPT ![p] =
                                    [c2 EXCEPT !.P = sample.parameters,
                                               !.h = dict_hash(seed[p],
                                                       sample.parameters),
                                               !.miss = TRUE]]
                              /\ pc' = [pc EXCEPT ![p] = "g_gen"]
                         ELSE Finish(p, c2,
                                     DefinedByRaises(p, sample.parameters))
                    ELSE IF defined = "KeyError"
                    THEN Finish(p, c2, "KeyError")
                    ELSE IF defined = "True" /\ usable = "KeyError"
                    THEN Finish(p, c2, "KeyError")
                    ELSE /\ cur' = [cur EXCEPT ![p] =
                               IF defined = "True" /\ usable = "usable"
                               THEN [c2 EXCEPT !.yielded = Append(@, sample)]
                               ELSE c2]
                         /\ UNCHANGED pc
    /\ UNCHANGED <<disk_db, files, db_dict, seed, live, last, nops, ncrash, of,
                 paths>>

(***************************************************************************)
(* An ObjectiveFunction over a SampleDatabase of one process, which        *)
(* evaluates, iterates, and receives samples of earlier experiments        *)
(***************************************************************************)
\* requests of the optimiser: a in {-, 0.5, 1.0, 3.0, 3.5},
\* b in {-, 2.5, 4}, c in {-, 9}
OptimizedParams ==
    { m \in UNION { [ks -> {FloatV(2), FloatV(4), FloatV(12), FloatV(14),
                            FloatV(10), IntV(4), IntV(9)}] :
                    ks \in SUBSET {"a", "b", "c"} } :
        /\ "a" \in DOMAIN m =>
               m["a"] \in {FloatV(2), FloatV(4), FloatV(12), FloatV(14)}
        /\ "b" \in DOMAIN m => m["b"] \in {FloatV(10), IntV(4)}
        /\ "c" \in DOMAIN m => m["c"] = IntV(9) }

\* parameter sets of the samples of earlier experiments
HistoricParams ==
    { ("a" :> FloatV(8)) @@ ("b" :> IntV(2)),
      ("a" :> FloatV(8)) @@ ("b" :> IntV(3)),
      ("a" :> FloatV(14)) @@ ("b" :> IntV(2)),
      ("b" :> IntV(2)),
      ("b" :> IntV(3)) }

FixedParams == { NoParams, ("a" :> FloatV(8)), ("b" :> IntV(2)) }

\* the sample that add_sample stored for P in an earlier run, and the index
\* and payload files of a database that holds those of the parameter sets Ps
StoredSample(P) ==
    [name |-> HashName(dict_hash(0, P)), parameters |-> P, data |-> "d1"]

StoredIndex(Ps) ==
    [h \in {dict_hash(0, P) : P \in Ps} |->
        LET P == CHOOSE Q \in Ps : dict_hash(0, Q) = h
        IN [pickle_name |-> StoredSample(P).name, params_dict |-> P]]

StoredFiles(Ps) ==
    [nm \in {StoredSample(P).name : P \in Ps} |->
        StoredSample(CHOOSE Q \in Ps : StoredSample(Q).name = nm)]

\* The process has loaded the index file of a database that holds at most
\* MaxStored samples of earlier experiments.  evaluate, __iter__ and
\* samples_filtered of src/objective_function.py are those of bayropt
\* without normalization.
InitObjective ==
    /\ \E Ps \in SUBSET HistoricParams :
         /\ Cardinality(Ps) <= MaxStored
         /\ disk_db = StoredIndex(Ps)
         /\ files = StoredFiles(Ps)
         /\ db_dict = [p \in Procs |-> IF p = 1 THEN StoredIndex(Ps)
                                       ELSE EmptyMap]
    /\ live = {1}
    /\ seed = [p \in Procs |-> 0]
    /\ pc = [p \in Procs |-> "idle"]
    /\ cur = [p \in Procs |-> IdleCur]
    /\ last = NoEvent
    /\ nops = 0
    /\ ncrash = 0
    /\ of \in {o \in ObjectiveFunctions : o.impl = "bayropt"}
    /\ paths = OpenPaths

NextObjective ==
    \/ \E p \in Procs, m \in OptimizedParams :
            nops < MaxObjectiveOps /\ EvaluateCall(p, m)
    \/ \E p \in Procs : Generate(p)
    \/ \E p \in Procs : GetItemLoad(p)
    \/ \E p \in Procs : AddSamplePickle(p)
    \/ \E p \in Procs : AddSampleWrite(p)
    \/ \E p \in Procs : AddSampleRegister(p)
    \/ \E p \in Procs : save(p)
    \/ \E p \in Procs : nops < MaxObjectiveOps /\ ObjectiveIterCall(p)
    \/ \E p \in Procs, fixed_params \in FixedParams :
            nops < MaxObjectiveOps /\ SamplesFilteredCall(p, fixed_params)
    \/ \E p \in Procs : ObjectiveIterNext(p)
    \/ \E p \in Procs : Return(p)

SpecObjective == InitObjective /\ [][NextObjective]_vars

(***************************************************************************)
(* An ObjectiveFunction whose normalize_parameters and                     *)
(* denormalize_parameters are called on mappings of the caller             *)
(***************************************************************************)
\* a in {-, 1.0, 2.0, 3.0}, b in {-, 1, 2}, c in {-, 9}
ScaledParams ==
    { m \in UNION { [ks -> {FloatV(4), FloatV(8), FloatV(12), IntV(1), IntV(2),
                            IntV(9)}] :
                    ks \in SUBSET {"a", "b", "c"} } :
        /\ "a" \in DOMAIN m => m["a"].kind = "float"
        /\ "b" \in DOMAIN m => m["b"] \in {IntV(1), IntV(2)}
        /\ "c" \in DOMAIN m => m["c"] = IntV(9) }

InitScale ==
    /\ disk_db = EmptyMap
    /\ files = EmptyMap
    /\ live = {1}
    /\ db_dict = [p \in Procs |-> EmptyMap]
    /\ seed = [p \in Procs |-> 0]
    /\ pc = [p \in Procs |-> "idle"]
    /\ cur = [p \in Procs |-> IdleCur]
    /\ last = NoEvent
    /\ nops = 0
    /\ ncrash = 0
    /\ of \in ObjectiveFunctions
    /\ paths = OpenPaths

NextScale ==
    \/ \E p \in Procs, m \in ScaledParams : NormalizeCall(p, m)
    \/ \E p \in Procs, m \in ScaledParams : DenormalizeCall(p, m)
    \/ \E p \in Procs : Return(p)

SpecScale == InitScale /\ [][NextScale]_vars

(***************************************************************************)
(* Two processes that have each constructed a SampleDatabase on the same   *)
(* paths while the index file was empty, and that look up and add samples. *)
(***************************************************************************)
InitShared ==
    /\ disk_db = EmptyMap
    /\ files = EmptyMap
    /\ live = Procs
    /\ db_dict = [p \in Procs |-> EmptyMap]
    /\ seed = [p \in Procs |-> 0]
    /\ pc = [p \in Procs |-> "idle"]
    /\ cur = [p \in Procs |-> IdleCur]
    /\ last = NoEvent
    /\ nops = 0
    /\ ncrash = 0
    /\ of = NoObjective
    /\ paths = OpenPaths

NextShared ==
    \/ \E p \in Procs, P \in ParamSets :
            nops < MaxSharedOps /\ GetItemCall(p, P)
    \/ \E p \in Procs : Generate(p)
    \/ \E p \in Procs : GetItemLoad(p)
    \/ \E p \in Procs, P \in ParamSets, ov \in BOOLEAN : \E S \in Samples(P) :
            nops < MaxSharedOps /\ AddSampleCall(p, S, P, ov)
    \/ \E p \in Procs : AddSamplePickle(p)
    \/ \E p \in Procs : AddSampleWrite(p)
    \/ \E p \in Procs : AddSampleRegister(p)
    \/ \E p \in Procs : save(p)
    \/ \E p \in Procs : Return(p)

SpecShared == InitShared /\ [][NextShared]_vars

(***************************************************************************)
(* SampleDatabase.dict_hash called on parameter sets with int, list and    *)
(* tuple values, by processes with any hash seed                           *)
(***************************************************************************)
HashSequences == {<<1>>, <<-1>>, <<1, 2>>, <<2, 1>>}

HashValues ==
    {IntV(-1), IntV(-2), IntV(1)}
        \cup {ListV(s) : s \in HashSequences}
        \cup {TupleV(s) : s \in HashSequences}

HashInputs ==
    [{"x1"} -> HashValues]
        \cup [{"x1", "x2"} -> {IntV(1), ListV(<<1, 2>>), TupleV(<<1, 2>>)}]

InitHash ==
    /\ disk_db = EmptyMap
    /\ files = EmptyMap
    /\ live = Procs
    /\ db_dict = [p \in Procs |-> EmptyMap]
    /\ seed \in [Procs -> Seeds]
    /\ pc = [p \in Procs |-> "idle"]
    /\ cur = [p \in Procs |-> IdleCur]
    /\ last = NoEvent
    /\ nops = 0
    /\ ncrash = 0
    /\ of = NoObjective
    /\ paths = OpenPaths

\* lines 244-255
DictHashCall(p, P) ==
    /\ p \in live /\ pc[p] = "idle" /\ nops < MaxOps
    /\ nops' = nops + 1
    /\ Finish(p, [IdleCur EXCEPT !.op = "hash", !.P = P,
                                 !.h = dict_hash(seed[p], P)], "ok")
    /\ UNCHANGED <<disk_db, files, db_dict, seed, live, last, ncrash, of,
                 paths>>

NextHash ==
    \/ \E p \in Procs, P \in HashInputs : DictHashCall(p, P)
    \/ \E p \in Procs : Return(p)

SpecHash == InitHash /\ [][NextHash]_vars

(***************************************************************************)
(* SampleDatabase.__init__ on paths that hold the index and the payloads   *)
(* of an earlier session, nothing, or something else; the database it has  *)
(* constructed is then looked up.                                          *)
(***************************************************************************)
\* a constructor that does not save the empty index it starts from
NewDatabaseNoSave(p) ==
    /\ p \notin live /\ pc[p] = "idle"
    /\ LET c == [IdleCur EXCEPT !.op = "init", !.pre = Snapshot(p)]
       IN IF paths.database = "dir" \/ paths.sample_dir # "dir"
          THEN /\ Finish(p, c, "ValueError")
               /\ UNCHANGED <<db_dict, live>>
          ELSE /\ db_dict' = [db_dict EXCEPT ![p] =
                     IF paths.database = "file" THEN disk_db ELSE EmptyMap]
               /\ live' = live \cup {p}
               /\ Finish(p, c, "ok")
    /\ UNCHANGED <<disk_db, files, seed, last, nops, ncrash, of, paths>>

\* lines 79-98: the two path checks, then either the index file is loaded or
\* the empty index is saved to a new file
NewDatabase(p) ==
    /\ p \notin live /\ pc[p] = "idle"
    /\ LET c == [IdleCur EXCEPT !.op = "init", !.pre = Snapshot(p)]
       IN IF paths.database = "dir" \/ paths.sample_dir # "dir"
          THEN /\ Finish(p, c, "ValueError")
               /\ UNCHANGED <<disk_db, db_dict, live, paths>>
          ELSE IF paths.database = "file"
          THEN /\ db_dict' = [db_dict EXCEPT ![p] = disk_db]
               /\ live' = live \cup {p}
               /\ Finish(p, c, "ok")
               /\ UNCHANGED <<disk_db, paths>>
          ELSE /\ db_dict' = [db_dict EXCEPT ![p] = EmptyMap]
               /\ disk_db' = EmptyMap
               /\ paths' = [paths EXCEPT !.database = "file"]
               /\ live' = live \cup {p}
               /\ Finish(p, c, "ok")
    /\ UNCHANGED <<files, seed, last, nops, ncrash, of>>

\* the payload files that an earlier session, run with the same
\* PYTHONHASHSEED, left for the parameter sets Ps, with or without the index
\* file
InitCreate ==
    /\ \E Ps \in SUBSET ParamSets,
          database \in {"absent", "file", "dir"},
          sample_dir \in {"absent", "dir"} :
         /\ Cardinality(Ps) <= MaxStored
         /\ sample_dir # "dir" => Ps = {}
         /\ paths = [database |-> database, sample_dir |-> sample_dir]
         /\ disk_db = IF database = "file" THEN StoredIndex(Ps) ELSE EmptyMap
         /\ files = StoredFiles(Ps)
    /\ live = {}
    /\ db_dict = [p \in Procs |-> EmptyMap]
    /\ seed = [p \in Procs |-> 0]
    /\ pc = [p \in Procs |-> "idle"]
    /\ cur = [p \in Procs |-> IdleCur]
    /\ last = NoEvent
    /\ nops = 0
    /\ ncrash = 0
    /\ of = NoObjective

NextCreate ==
    \/ \E p \in Procs : live = {} /\ NewDatabase(p)
    \/ \E p \in Procs, P \in ParamSets : GetItemCall(p, P)
    \/ \E p \in Procs : Generate(p)
    \/ \E p \in Procs : GetItemLoad(p)
    \/ \E p \in Procs : AddSamplePickle(p)
    \/ \E p \in Procs : AddSampleWrite(p)
    \/ \E p \in Procs : AddSampleRegister(p)
    \/ \E p \in Procs : save(p)
    \/ \E p \in Procs : Return(p)

SpecCreate == InitCreate /\ [][NextCreate]_vars

(***************************************************************************)
(* One SampleDatabase that started empty and whose callers never ask       *)
(* add_sample to override: calls of __getitem__, add_sample and            *)
(* remove_sample, without a restart                                        *)
(***************************************************************************)
NextNoOverride ==
    \/ \E p \in Procs, P \in ParamSets : GetItemCall(p, P)
    \/ \E p \in Procs : Generate(p)
    \/ \E p \in Procs : GetItemLoad(p)
    \/ \E p \in Procs, P \in ParamSets : \E S \in Samples(P) :
            AddSampleCall(p, S, P, FALSE)
    \/ \E p \in Procs : AddSamplePickle(p)
    \/ \E p \in Procs : AddSampleWrite(p)
    \/ \E p \in Procs : AddSampleRegister(p)
    \/ \E p \in Procs : save(p)
    \/ \E p \in Procs, h \in Tokens : RemoveSampleCall(p, h)
    \/ \E p \in Procs : RemoveSampleFile(p)
    \/ \E p \in Procs : RemoveSampleDel(p)
    \/ \E p \in Procs : Return(p)

SpecNoOverride == Init /\ [][NextNoOverride]_vars

(***************************************************************************)
(* A session that iterates over the ObjectiveFunction of a database filled *)
(* by an earlier session, whose PYTHONHASHSEED was 0; the seed of this     *)
(* session is the same or another one.                                     *)
(***************************************************************************)
InitIterate ==
    /\ \E Ps \in SUBSET HistoricParams :
         /\ Cardinality(Ps) <= MaxStored
         /\ disk_db = StoredIndex(Ps)
         /\ files = StoredFiles(Ps)
         /\ db_dict = [p \in Procs |-> IF p = 1 THEN StoredIndex(Ps)
                                       ELSE EmptyMap]
    /\ live = {1}
    /\ \E sd \in Seeds : seed = [p \in Procs |-> sd]
    /\ pc = [p \in Procs |-> "idle"]
    /\ cur = [p \in Procs |-> IdleCur]
    /\ last = NoEvent
    /\ nops = 0
    /\ ncrash = 0
    /\ of \in {o \in ObjectiveFunctions : o.impl = "bayropt"}
    /\ paths = OpenPaths

NextIterate ==
    \/ \E p \in Procs : nops < MaxObjectiveOps /\ ObjectiveIterCall(p)
    \/ \E p \in Procs, fixed_params \in FixedParams :
            nops < MaxObjectiveOps /\ SamplesFilteredCall(p, fixed_params)
    \/ \E p \in Procs : ObjectiveIterNext(p)
    \/ \E p \in Procs : Generate(p)
    \/ \E p \in Procs : AddSamplePickle(p)
    \/ \E p \in Procs : AddSampleWrite(p)
    \/ \E p \in Procs : AddSampleRegister(p)
    \/ \E p \in Procs : save(p)
    \/ \E p \in Procs : GetItemLoad(p)
    \/ \E p \in Procs : Return(p)

SpecIterate == InitIterate /\ [][NextIterate]_vars

(***************************************************************************)
(* Properties                                                              *)
(***************************************************************************)
\* the call of process p has just ended and is a call of op
Ended(p, op) == pc[p] = "ret" /\ cur[p].op = op

\* the call of p that has just ended directly follows a completed call of
\* kind op by the same instance on the same parameter set
Follows(p, op) ==
    /\ last.op = op /\ last.proc = p /\ last.P = cur[p].P

\* C1 (as claimed): two consecutive __getitem__(P) invoke the generator at
\* most once in total, and the second returns what the first returned.
C1_AtMostOneGeneration ==
    \A p \in Procs :
        (Ended(p, "get") /\ Follows(p, "get")) =>
            /\ last.gens + cur[p].gens <= 1
            /\ (last.status = "ok" =>
                    cur[p].status = "ok" /\ cur[p].result = last.sample)

\* C1 (amended): when the first of two consecutive __getitem__(P) returned
\* normally, the second does not invoke the generator and returns a sample
\* equal to the one the first returned, so the generator ran at most once.
C1_SecondCallServedFromCache ==
    \A p \in Procs :
        (Ended(p, "get") /\ Follows(p, "get") /\ last.status = "ok") =>
            /\ cur[p].gens = 0
            /\ last.gens + cur[p].gens <= 1
            /\ cur[p].status = "ok"
            /\ cur[p].result = last.sample

C1_Witness ==
    \E p \in Procs :
        /\ Ended(p, "get") /\ Follows(p, "get")
        /\ last.status = "ok" /\ last.gens = 1
        /\ cur[p].status = "ok"

\* C2: after add_sample(S, P) returned normally, the next __getitem__(P)
\* returns a sample equal to S and does not invoke the generator.
C2_RoundTrip ==
    \A p \in Procs :
        (Ended(p, "get") /\ Follows(p, "add") /\ last.status = "ok") =>
            /\ cur[p].status = "ok"
            /\ cur[p].result = last.sample
            /\ cur[p].gens = 0

C2_Witness ==
    \E p \in Procs :
        /\ Ended(p, "get") /\ Follows(p, "add") /\ last.status = "ok"
        /\ cur[p].result = last.sample
        /\ \E nm \in DOMAIN cur[p].pre.files :
               nm = last.sample.name /\ nm.kind = "str"

\* C3: once add_sample(S, P) or __getitem__(P) has returned normally, a new
\* SampleDatabase on the same paths and with the same hash seed finds P
\* (exists) and its __getitem__(P) returns the recorded sample without
\* invoking the generator.
C3_PersistsAcrossRestart ==
    \A p \in Procs :
        (Ended(p, "get") /\ Follows(p, "restart")
            /\ last.clean /\ last.sameseed) =>
            /\ ~cur[p].miss
            /\ cur[p].status = "ok"
            /\ cur[p].result = last.sample
            /\ cur[p].gens = 0

C3_Witness ==
    \E p \in Procs :
        /\ Ended(p, "get") /\ Follows(p, "restart")
        /\ last.clean /\ last.sameseed
        /\ cur[p].status = "ok" /\ cur[p].result = last.sample

\* the record found by __getitem__ holds another parameter set
Collides(p) ==
    /\ ~cur[p].miss
    /\ ~DictEq(cur[p].P, cur[p].pre.db[cur[p].h].params_dict)

C5_MissProtocol ==
    \A p \in Procs :
        LET c == cur[p]
        IN (c.op = "get" /\ c.miss) =>
            /\ pc[p] = "g_gen" =>
                 /\ c.gens = 0
                 /\ c.h \notin DOMAIN disk_db
            /\ pc[p] = "a_pickle" =>
                 /\ c.gens = 1 /\ c.genarg = c.P
                 /\ c.h \notin DOMAIN disk_db
            /\ pc[p] = "a_write" =>
                 /\ c.gens = 1 /\ c.genarg = c.P
                 /\ c.h \notin DOMAIN disk_db
            /\ pc[p] \in {"a_check", "a_save"} =>
                 /\ c.gens = 1
                 /\ c.sample.name \in DOMAIN files
                 /\ files[c.sample.name] = c.sample
                 /\ c.h \notin DOMAIN disk_db
            /\ pc[p] = "g_load" =>
                 /\ c.gens = 1
                 /\ c.sample.name \in DOMAIN files
                 /\ c.h \in DOMAIN disk_db
                 /\ disk_db[c.h] =
                      [pickle_name |-> c.sample.name, params_dict |-> c.P]
            /\ pc[p] = "ret" =>
                 /\ c.gens = 1 /\ c.genarg = c.P
                 /\ c.status = "ok" =>
                      /\ c.h \in DOMAIN disk_db
                      /\ disk_db[c.h].params_dict = c.P
                      /\ disk_db[c.h].pickle_name \in DOMAIN files
                      /\ c.result = files[disk_db[c.h].pickle_name]
                      /\ c.result = c.sample

C5_Witness ==
    \E p \in Procs :
        /\ Ended(p, "get") /\ cur[p].miss /\ cur[p].status = "ok"
        /\ cur[p].h \in DOMAIN disk_db

\* the name under which add_sample pickles the sample
PickleName(p) == cur[p].sample.name

\* add_sample was called without override and found a record for the hash
Duplicate(p) ==
    /\ ~cur[p].override /\ ~cur[p].nested
    /\ cur[p].h \in DOMAIN cur[p].pre.db

RecordKept(p) ==
    /\ cur[p].h \in DOMAIN db_dict[p] /\ cur[p].h \in DOMAIN disk_db
    /\ db_dict[p][cur[p].h] = cur[p].pre.db[cur[p].h]
    /\ disk_db[cur[p].h] = cur[p].pre.disk[cur[p].h]

\* C6 (as claimed): add_sample without override fails with the LookupError
\* whenever a record exists for dict_hash(P), whatever the sample's name,
\* and leaves the record as it was.
C6_DuplicateIsLookupError ==
    \A p \in Procs :
        (Ended(p, "add") /\ Duplicate(p)) =>
            cur[p].status = "LookupError" /\ RecordKept(p)

\* C6 (amended): it fails and leaves the record as it was; the error is the
\* LookupError of the index check when no payload file of the sample's name
\* existed, and the ValueError of the payload check when one did.
C6_DuplicateFails ==
    \A p \in Procs :
        (Ended(p, "add") /\ Duplicate(p)) =>
            /\ cur[p].status =
                 IF PickleName(p) \in DOMAIN cur[p].pre.files
                 THEN "ValueError" ELSE "LookupError"
            /\ RecordKept(p)

C6_Witness ==
    \E p \in Procs :
        /\ Ended(p, "add") /\ Duplicate(p)
        /\ cur[p].status = "LookupError"

\* every record of the index file names a payload file that exists
DiskRefsOk ==
    \A h \in DOMAIN disk_db : disk_db[h].pickle_name \in DOMAIN files

\* C7 (as claimed): in every reachable state, the states between the file
\* operations of add_sample, remove_sample and __getitem__ included, every
\* record of the index file names a payload file that exists.
C7_IndexNamesExistingPayloads == DiskRefsOk

\* C7 (amended): every file operation of add_sample and __getitem__, and a
\* restart at any point, keeps it true that every record of the index file
\* names an existing payload file; only remove_sample's deletion of a
\* payload file, which precedes its rewrite of the index, makes it false.
C7_OnlyRemoveBreaksRefs ==
    [][(DiskRefsOk /\ ~DiskRefsOk') => (\E p \in Procs : pc[p] = "r_rm")]_vars

C7_Witness ==
    \E p \in Procs :
        /\ pc[p] = "a_save" /\ cur[p].op = "add"
        /\ PickleName(p) \in DOMAIN files
        /\ cur[p].h \notin DOMAIN disk_db
        /\ disk_db # EmptyMap
        /\ DiskRefsOk

\* C8: when add_sample or remove_sample returns normally, the index file
\* equals the in-memory index.
C8_IndexPersistedOnReturn ==
    \A p \in Procs :
        (pc[p] = "ret" /\ cur[p].op \in {"add", "remove"}
            /\ cur[p].status = "ok") =>
            disk_db = db_dict[p]

C8_Witness ==
    \E p \in Procs :
        /\ Ended(p, "remove") /\ cur[p].status = "ok"
        /\ disk_db # EmptyMap /\ disk_db # cur[p].pre.disk

\* C9: remove_sample(h) for a key of the index returns normally whether or
\* not the payload file exists; afterwards h is in neither index, the payload
\* file of the removed record does not exist, and every other record and
\* payload file is as before.
C9_RemoveSample ==
    \A p \in Procs :
        (Ended(p, "remove") /\ cur[p].h \in DOMAIN cur[p].pre.db) =>
            LET pre == cur[p].pre
                nm == pre.db[cur[p].h].pickle_name
            IN /\ cur[p].status = "ok"
               /\ cur[p].h \notin DOMAIN db_dict[p]
               /\ cur[p].h \notin DOMAIN disk_db
               /\ nm \notin DOMAIN files
               /\ db_dict[p] = Del(pre.db, cur[p].h)
               /\ disk_db = Del(pre.disk, cur[p].h)
               /\ files = Del(pre.files, nm)

C9_Witness ==
    \E p \in Procs :
        /\ Ended(p, "remove") /\ cur[p].h \in DOMAIN cur[p].pre.db
        /\ cur[p].pre.db[cur[p].h].pickle_name \notin DOMAIN cur[p].pre.files
        /\ cur[p].status = "ok"

\* C10 (as claimed): iterating yields one freshly unpickled sample per
\* record of the index, as many as len() reports.
C10_IterYieldsEveryRecord ==
    \A p \in Procs :
        Ended(p, "iter") =>
            /\ cur[p].status = "ok"
            /\ Len(cur[p].yielded) = Cardinality(DOMAIN db_dict[p])

\* C10 (amended): iterating yields, for one record after the other and no
\* record twice, the sample unpickled from the record's payload file; when
\* every record's payload file exists it ends normally after len() samples,
\* otherwise it ends with the error of the failed read at the first record
\* whose file is missing.  Every iteration starts anew from the index as it
\* is then.
C10_IterYieldsReadableRecords ==
    \A p \in Procs :
        Ended(p, "iter") =>
            LET c == cur[p]
                db == db_dict[p]
                readable == \A k \in DOMAIN db : db[k].pickle_name \in DOMAIN files
            IN /\ Len(c.yielded) = Len(c.visited)
               /\ \A i \in 1..Len(c.visited) :
                    /\ c.visited[i] \in DOMAIN db
                    /\ c.yielded[i] = files[db[c.visited[i]].pickle_name]
                    /\ \A j \in 1..Len(c.visited) :
                         c.visited[i] = c.visited[j] => i = j
               /\ c.status = IF readable THEN "ok" ELSE "FileNotFoundError"
               /\ c.status = "ok" =>
                    /\ Len(c.yielded) = Cardinality(DOMAIN db)
                    /\ {c.visited[i] : i \in 1..Len(c.visited)} = DOMAIN db
               /\ c.status # "ok" => Len(c.yielded) < Cardinality(DOMAIN db)

C10_Witness ==
    \E p \in Procs :
        /\ Ended(p, "iter") /\ cur[p].status = "ok"
        /\ Len(cur[p].yielded) = 2
        /\ last.op = "add" /\ last.status = "ok"

\* the steps of add_sample after its payload was written
Pickled(p) ==
    \/ pc[p] \in {"a_check", "a_save", "g_load"}
    \/ pc[p] = "ret" /\ cur[p].status \in {"ok", "LookupError"}
          /\ (cur[p].op = "add" \/ cur[p].nested)

BothGenerated(q) ==
    /\ Ended(q, "get") /\ cur[q].miss /\ cur[q].status # "RuntimeError"
    /\ last.op = "get" /\ last.proc \in Procs \ {q}
    /\ last.P = cur[q].P /\ last.gens = 1 /\ last.status # "RuntimeError"

SameUpToSequenceType(P, Q) ==
    /\ DOMAIN P = DOMAIN Q
    /\ \A k \in DOMAIN P :
         /\ P[k].elems = Q[k].elems
         /\ \/ P[k].kind = Q[k].kind
            \/ {P[k].kind, Q[k].kind} = {"list", "tuple"}

\* C13: within one process dict_hash returns the same token for the same
\* parameter set each time it is called, and the same token for two
\* parameter sets that differ only in that a sequence is a list in one and a
\* tuple of the same elements in the same order in the other.
C13_HashIgnoresListOrTuple ==
    \A p \in Procs :
        (Ended(p, "hash") /\ last.op = "hash" /\ last.proc = p
            /\ SameUpToSequenceType(last.P, cur[p].P)) =>
            cur[p].h = last.h

C13_Witness ==
    \E p \in Procs :
        /\ Ended(p, "hash") /\ last.op = "hash" /\ last.proc = p
        /\ DOMAIN cur[p].P = {"x1", "x2"} /\ DOMAIN last.P = {"x1", "x2"}
        /\ last.P["x1"] = ListV(<<1, 2>>) /\ cur[p].P["x1"] = TupleV(<<1, 2>>)
        /\ last.P["x2"] = cur[p].P["x2"]
        /\ cur[p].h = last.h

\* the optimised parameters, and the defects of the request of evaluate:
\* keys that are not optimised, optimised keys that are absent, and values
\* beyond a bound
Optimised == DOMAIN of.design_space
OutOfScope(m) == DOMAIN m \ Optimised
Missing(m) == Optimised \ DOMAIN m
Above(m) ==
    { k \in Optimised \cap DOMAIN m :
        Quarters(m[k]) > Quarters(of.design_space[k][2]) }
Below(m) ==
    { k \in Optimised \cap DOMAIN m :
        Quarters(m[k]) < Quarters(of.design_space[k][1]) }

\* evaluate ended with the error of its checks, without having asked the
\* sample source
NotQueried(p) ==
    /\ cur[p].status = "ValueError" /\ cur[p].err # NoError
    /\ cur[p].P = NoParams /\ cur[p].gens = 0 /\ ~cur[p].miss
    /\ cur[p].result = NoSample /\ cur[p].value = NoValue
    /\ Snapshot(p) = cur[p].pre

C15_BoundsAreInclusive ==
    \A p \in Procs :
        (Ended(p, "evaluate") /\ DOMAIN cur[p].arg = Optimised) =>
            LET m == cur[p].arg
                e == cur[p].err
            IN IF Above(m) \cup Below(m) = {}
               THEN e = NoError /\ cur[p].P # NoParams
               ELSE /\ NotQueried(p)
                    /\ e.kind = "bounds"
                    /\ e.bound = "max" => e.key \in Above(m)
                    /\ e.bound = "min" => e.key \in Below(m)
                    /\ e.bound \in {"min", "max"}

C15_Witness ==
    \E p \in Procs :
        /\ Ended(p, "evaluate") /\ DOMAIN cur[p].arg = Optimised
        /\ Optimised = {"a", "b"}
        /\ cur[p].arg["a"] = of.design_space["a"][2]
        /\ cur[p].err = NoError /\ cur[p].status = "ok"

\* evaluate asked the sample source, and was given a sample
Asked(p) == Ended(p, "evaluate") /\ cur[p].err = NoError
Served(p) == Asked(p) /\ cur[p].status = "ok"

\* the call of evaluate that has just ended repeats the call completed right
\* before it, which returned a value
Repeated(p) ==
    /\ Ended(p, "evaluate")
    /\ last.op = "evaluate" /\ last.proc = p /\ last.status = "ok"
    /\ last.arg = cur[p].arg

\* what evaluate returns is the measure of the sample on record for the
\* request, and a repeated call returns the same value without a generator
\* call
ReturnsMeasureOfRecord(p) ==
    /\ Served(p) =>
         /\ cur[p].h \in DOMAIN db_dict[p]
         /\ db_dict[p][cur[p].h].params_dict = cur[p].P
         /\ cur[p].result = files[db_dict[p][cur[p].h].pickle_name]
         /\ cur[p].value = performance_measure(cur[p].result)
    /\ Repeated(p) =>
         /\ cur[p].status = "ok" /\ cur[p].gens = 0
         /\ cur[p].value = last.value

RequestedQuarters(k, v) ==
    LET whole == IF Quarters(v) >= 0 THEN 4 * (Quarters(v) \div 4)
                 ELSE -(4 * ((-Quarters(v)) \div 4))
        q == IF of.default_params[k].kind = "int" THEN whole ELSE Quarters(v)
        lo == Quarters(of.design_space[k][1])
        hi == Quarters(of.design_space[k][2])
    IN IF of.normalization THEN (q * (hi - lo)) \div 4 + lo ELSE q

VisitedSample(p, i) == files[db_dict[p][cur[p].visited[i]].pickle_name]

Yielded(p, sample) ==
    \E j \in 1..Len(cur[p].yielded) : cur[p].yielded[j] = sample

\* every non-optimised parameter of the sample has its default value
MatchesDefaults(sample) ==
    \A k \in DOMAIN sample.parameters \ Optimised :
        /\ k \in DOMAIN of.default_params
        /\ ValueEq(sample.parameters[k], of.default_params[k])

\* C17: of the samples that __iter__ has reached and that carry a value for
\* every optimised parameter, the yielded ones are exactly those whose
\* non-optimised parameters all equal their default values.
C17_YieldedIffDefaults ==
    \A p \in Procs :
        cur[p].op = "of_iter" =>
            \A i \in 1..Len(cur[p].visited) :
                Optimised \subseteq DOMAIN VisitedSample(p, i).parameters =>
                    (Yielded(p, VisitedSample(p, i))
                        <=> MatchesDefaults(VisitedSample(p, i)))

\* an iteration that ended after it yielded the sample of a = 2.0 with the
\* default b = 2 and passed over the one with b = 3
C17_Witness ==
    \E p \in Procs :
        /\ Ended(p, "of_iter") /\ cur[p].status = "ok"
        /\ Optimised = {"a"}
        /\ Len(cur[p].visited) = 2 /\ Len(cur[p].yielded) = 1
        /\ cur[p].yielded[1].parameters = ("a" :> FloatV(8)) @@ ("b" :> IntV(2))
        /\ \E i \in 1..2 :
             VisitedSample(p, i).parameters =
                 ("a" :> FloatV(8)) @@ ("b" :> IntV(3))

\* the sample has parameters on record, and lacks an optimised one
LacksOptimised(sample) ==
    /\ sample.parameters # NoParams
    /\ ~(Optimised \subseteq DOMAIN sample.parameters)

\* the iteration of p ended with the LookupError at the i-th record
RaisedAt(p, i) ==
    /\ pc[p] = "ret" /\ cur[p].status = "LookupError"
    /\ i = Len(cur[p].visited)

\* C18 (as claimed): a sample that lacks an optimised parameter ends the
\* iteration with a LookupError when it is reached, whatever the values of
\* its other parameters.
C18_LackingSampleAlwaysRaises ==
    \A p \in Procs :
        cur[p].op = "of_iter" =>
            \A i \in 1..Len(cur[p].visited) :
                LacksOptimised(VisitedSample(p, i)) => RaisedAt(p, i)

\* C18 (amended): a sample that lacks an optimised parameter ends the
\* iteration with a LookupError when it is reached if all its non-optimised
\* parameters have their default values; if one of them has not, the sample
\* is passed over without an error and is not yielded.
C18_LackingSampleRaisesIfDefaults ==
    \A p \in Procs :
        cur[p].op = "of_iter" =>
            \A i \in 1..Len(cur[p].visited) :
                LacksOptimised(VisitedSample(p, i)) =>
                    /\ ~Yielded(p, VisitedSample(p, i))
                    /\ (MatchesDefaults(VisitedSample(p, i))
                            <=> RaisedAt(p, i))

\* an iteration that the sample of b = 2 alone, which has no value of a,
\* ended with the LookupError
C18_Witness ==
    \E p \in Procs :
        /\ Ended(p, "of_iter") /\ cur[p].status = "LookupError"
        /\ Optimised = {"a"}
        /\ VisitedSample(p, Len(cur[p].visited)).parameters = ("b" :> IntV(2))

\* __iter__ would yield the sample
ItemOfIter(sample) ==
    /\ Optimised \subseteq DOMAIN sample.parameters
    /\ MatchesDefaults(sample)

\* the parameters named in fixed_params have their default values, and the
\* optimised parameters not named there lie within their bounds
PassesFilter(fixed_params, sample) ==
    /\ \A k \in DOMAIN fixed_params \cap DOMAIN sample.parameters :
           ValueEq(of.default_params[k], sample.parameters[k])
    /\ \A k \in (Optimised \cap DOMAIN sample.parameters)
                    \ DOMAIN fixed_params :
           /\ Quarters(sample.parameters[k]) >= Quarters(of.design_space[k][1])
           /\ Quarters(sample.parameters[k]) <= Quarters(of.design_space[k][2])

\* every sample on record is there to be read and is an item of __iter__
AllItemsOfIter(p) ==
    \A h \in DOMAIN db_dict[p] :
        /\ db_dict[p][h].pickle_name \in DOMAIN files
        /\ ItemOfIter(files[db_dict[p][h].pickle_name])

\* C19 (as claimed): over samples that are all items of __iter__,
\* samples_filtered(fixed_params) ends normally, also when the samples have
\* non-optimised parameters, and has yielded exactly the samples whose
\* parameters named in fixed_params have their default values and whose
\* remaining optimised parameters lie within their bounds.
C19_FilteredYieldsExactly ==
    \A p \in Procs :
        (Ended(p, "filtered") /\ AllItemsOfIter(p)) =>
            /\ cur[p].status = "ok"
            /\ \A h \in DOMAIN db_dict[p] :
                 LET sample == files[db_dict[p][h].pickle_name]
                 IN Yielded(p, sample) <=> PassesFilter(cur[p].fixed, sample)

Scaled(p) == Ended(p, "normalize") \/ Ended(p, "denormalize")

\* the call worked on a copy of the caller's mapping
OnACopy(p) == Ended(p, "normalize") /\ of.impl = "bayropt"

\* C20 (as claimed): after normalize_parameters or denormalize_parameters
\* the mapping that the caller passed holds the values it held before.
C20_CallerMappingUnchanged ==
    \A p \in Procs : Scaled(p) => cur[p].opt = cur[p].arg

\* C20 (amended): normalize_parameters of bayropt leaves the caller's
\* mapping as it was; denormalize_parameters, and normalize_parameters of
\* src/objective_function.py, return the caller's mapping itself, in which
\* the value of every optimised parameter has been replaced by the scaled
\* one and the other values are as before.
C20_OnlyBayroptNormalizeCopies ==
    \A p \in Procs :
        /\ OnACopy(p) => cur[p].opt = cur[p].arg
        /\ (Scaled(p) /\ ~OnACopy(p) /\ cur[p].status = "ok") =>
             /\ cur[p].opt = cur[p].ret
             /\ DOMAIN cur[p].opt = DOMAIN cur[p].arg
             /\ \A k \in DOMAIN cur[p].arg \ Optimised :
                    cur[p].opt[k] = cur[p].arg[k]
             /\ \A k \in Optimised :
                  LET lo == Quarters(of.design_space[k][1])
                      hi == Quarters(of.design_space[k][2])
                      before == Quarters(cur[p].arg[k])
                      after == Quarters(cur[p].opt[k])
                  IN IF cur[p].op = "denormalize"
                     THEN after = (before * (hi - lo)) \div 4 + lo
                     ELSE /\ after * (hi - lo) = (before - lo) * 4
                          /\ cur[p].opt[k].kind = "float"

\* bayropt: a normalize_parameters that returned, followed by a
\* denormalize_parameters({a: 2.0}) that left {a: 5.0} in the caller's mapping
C20_Witness ==
    \E p \in Procs :
        /\ Ended(p, "denormalize") /\ cur[p].status = "ok"
        /\ of.impl = "bayropt"
        /\ cur[p].arg = ("a" :> FloatV(8))
        /\ cur[p].opt = ("a" :> FloatV(20))
        /\ last.op = "normalize" /\ last.status = "ok" /\ last.proc = p

\* the pipeline-backed generator, asked by __getitem__ of p, found that the
\* pipeline ran with other parameters than the requested ones
PipelineMismatch(p) ==
    /\ cur[p].op = "get" /\ cur[p].gens > 0
    /\ cur[p].given # NoName
    /\ ~DictEq(cur[p].ran, cur[p].P)

C22_ConstructorCreatesOrLoads ==
    \A p \in Procs :
        (Ended(p, "init") /\ cur[p].pre.paths.sample_dir = "dir") =>
            /\ cur[p].pre.paths.database = "absent" =>
                 /\ cur[p].status = "ok" /\ p \in live
                 /\ paths = OpenPaths
                 /\ disk_db = EmptyMap
                 /\ Cardinality(DOMAIN db_dict[p]) = 0
                 /\ files = cur[p].pre.files
            /\ cur[p].pre.paths.database = "file" =>
                 /\ cur[p].status = "ok" /\ p \in live
                 /\ db_dict[p] = cur[p].pre.disk
                 /\ disk_db = cur[p].pre.disk
                 /\ paths = cur[p].pre.paths
                 /\ files = cur[p].pre.files

C22_Witness ==
    \E p \in Procs :
        /\ Ended(p, "init") /\ cur[p].status = "ok"
        /\ cur[p].pre.paths = [database |-> "absent", sample_dir |-> "dir"]
        /\ paths.database = "file" /\ disk_db = EmptyMap

\* add_sample of p has written the payload file and has not yet rewritten
\* the index file
PayloadWrittenIndexNot(p) == pc[p] \in {"a_check", "a_save"}

\* C23: when the process stops after add_sample has written the payload
\* file and before it has rewritten the index file, the index file is as it
\* was before the call, and that is the index which the next SampleDatabase
\* on these paths loads.
C23_CrashLeavesIndexAsBefore ==
    [][\A p \in Procs :
          (PayloadWrittenIndexNot(p) /\ ncrash' = ncrash + 1
              /\ pc'[p] = "idle") =>
                /\ disk_db = cur[p].pre.disk
                /\ disk_db' = cur[p].pre.disk
                /\ db_dict'[p] = cur[p].pre.disk]_vars

\* add_sample has written a new payload file and registered the sample in
\* memory; the index file is still the one of before the call
C23_Witness ==
    \E p \in Procs :
        /\ pc[p] = "a_save" /\ cur[p].op = "add"
        /\ cur[p].sample.name \in DOMAIN files \ DOMAIN cur[p].pre.files
        /\ db_dict[p] # cur[p].pre.db
        /\ disk_db = cur[p].pre.disk
        /\ ncrash < MaxCrashes

\* every record of the index is filed under the hash that process p
\* computes for the parameter set of the record
FiledUnderHash(p, index) ==
    \A h \in DOMAIN index : h = dict_hash(seed[p], index[h].params_dict)

\* C24: as long as the SampleDatabase that started empty is the one in use
\* (no restart), every record of its index, in memory and in the index
\* file, is filed under dict_hash of the record's params_dict.
C24_RecordsFiledUnderTheirHash ==
    \A p \in live :
        ncrash = 0 =>
            /\ FiledUnderHash(p, db_dict[p])
            /\ FiledUnderHash(p, disk_db)

\* two records on file: the one of an add_sample and the one of the
\* __getitem__ after it, which generated its sample
C24_Witness ==
    \E p \in live :
        /\ ncrash = 0
        /\ Ended(p, "get") /\ cur[p].status = "ok" /\ cur[p].gens = 1
        /\ last.op = "add" /\ last.status = "ok"
        /\ Cardinality(DOMAIN disk_db) = 2
        /\ disk_db = db_dict[p]

\* no two records of the index name the same payload
DistinctPayloads(index) ==
    \A h1, h2 \in DOMAIN index :
        h1 # h2 => index[h1].pickle_name # index[h2].pickle_name

\* the add_sample of p, called directly or by __getitem__, was given a
\* sample whose name is that of a payload file
ReusesPayloadName(p) ==
    /\ pc[p] = "ret"
    /\ cur[p].op = "add" \/ (cur[p].op = "get" /\ cur[p].gens > 0)
    /\ cur[p].sample.name \in DOMAIN cur[p].pre.files

\* C25: without override_existing, no two records of the index, in memory
\* or in the index file, name the same payload, and an add_sample whose
\* sample has the name of an existing payload file fails and leaves the
\* file as it is.
C25_NoSharedPayload ==
    /\ DistinctPayloads(disk_db)
    /\ \A p \in live : DistinctPayloads(db_dict[p])
    /\ \A p \in Procs :
         ReusesPayloadName(p) =>
             /\ cur[p].status = "ValueError"
             /\ files = cur[p].pre.files

\* an add_sample for {x1: -1} refused with the ValueError because its
\* sample has the name of the payload that the record of {x1: [1]} names
C25_Witness ==
    \E p \in Procs :
        /\ Ended(p, "add") /\ cur[p].status = "ValueError"
        /\ cur[p].P = ("x1" :> IntV(-1))
        /\ \E h \in DOMAIN db_dict[p] :
             /\ db_dict[p][h].pickle_name = cur[p].sample.name
             /\ db_dict[p][h].params_dict = ("x1" :> ListV(<<1>>))
        /\ files = cur[p].pre.files

\* The add_sample of process q has just returned; the call completed before
\* it was the add_sample of the other process for another parameter set,
\* and that call had rewritten the index file before the one of q began.
SerializedAdds(q) ==
    /\ Ended(q, "add") /\ cur[q].status = "ok"
    /\ last.op = "add" /\ last.proc \in Procs \ {q} /\ last.status = "ok"
    /\ last.h # cur[q].h
    /\ last.h \in DOMAIN cur[q].pre.disk
    /\ pc[last.proc] = "idle"

\* C26 (as claimed): after process A has completed add_sample for P1 and
\* process B has afterwards completed add_sample for another P2, the index
\* file holds the records of both.
C26_SerializedAddsBothOnDisk ==
    \A q \in Procs :
        SerializedAdds(q) =>
            /\ last.h \in DOMAIN disk_db
            /\ cur[q].h \in DOMAIN disk_db

InBounds(k, v) ==
    /\ Quarters(v) >= Quarters(of.design_space[k][1])
    /\ Quarters(v) <= Quarters(of.design_space[k][2])

\* a request that names exactly the optimised parameters, each with a value
\* in [0, 1]
NormalisedRequest(m) ==
    /\ DOMAIN m = Optimised
    /\ \A k \in DOMAIN m : Quarters(m[k]) >= 0 /\ Quarters(m[k]) <= 4

\* C27 (as claimed): with normalization on, the optimised parameters of
\* every parameter set that evaluate passes to the sample source lie within
\* their bounds, and evaluate accepts every request whose values are in
\* [0, 1].
C27_NormalisedStaysInBounds ==
    \A p \in Procs :
        (of.normalization /\ Ended(p, "evaluate")) =>
            /\ cur[p].err = NoError =>
                 \A k \in Optimised : InBounds(k, cur[p].P[k])
            /\ NormalisedRequest(cur[p].arg) => cur[p].err = NoError

\* C28 (as claimed): an add_sample without override_existing that ends with
\* the LookupError of the duplicate check or the ValueError of the payload
\* check leaves the index, in memory and in the file, and the payload files
\* as they were before the call.
C28_FailedAddChangesNothing ==
    \A p \in Procs :
        (Ended(p, "add") /\ ~cur[p].override
            /\ cur[p].status \in {"LookupError", "ValueError"}) =>
                /\ db_dict[p] = cur[p].pre.db
                /\ disk_db = cur[p].pre.disk
                /\ files = cur[p].pre.files

\* C29 (as claimed): while an ObjectiveFunction is iterated, with __iter__
\* or samples_filtered, the generator is never asked, and the index, in
\* memory and in the file, and the payload files stay as they were when the
\* iteration began; also when it ends with the LookupError.
C29_IterationIsReadOnly ==
    \A p \in Procs :
        cur[p].op \in {"of_iter", "filtered"} =>
            /\ cur[p].gens = 0
            /\ db_dict[p] = cur[p].pre.db
            /\ disk_db = cur[p].pre.disk
            /\ files = cur[p].pre.files

\* __getitem__(P') of process p has ended, and the operation before it was
\* an add_sample(S, P) of p that returned, where P' differs from P only in
\* that a sequence is a list in one and the equivalent tuple in the other
AfterAddOfOtherSequenceType(p) ==
    /\ Ended(p, "get")
    /\ last.op = "add" /\ last.status = "ok" /\ last.proc = p
    /\ SameUpToSequenceType(last.P, cur[p].P)
    /\ last.P # cur[p].P

\* C30 (as claimed): for P and P' that differ only in that a sequence is a
\* list in one and the equivalent tuple in the other, after add_sample(S, P)
\* the call __getitem__(P') returns the stored sample S and does not ask the
\* generator.
C30_ListOrTupleReturnsStored ==
    \A p \in Procs :
        AfterAddOfOtherSequenceType(p) =>
            /\ cur[p].status = "ok"
            /\ cur[p].result = last.sample
            /\ cur[p].gens = 0
====
